---- MODULE Spec2Model ----
(***************************************************************************)
(* Battery degradation engine: computeDegradation, the calibration factor, *)
(* buildTrend and getModelConfidence of src/src/utils/degradationCalculator *)
(* .js.                                                                     *)
(*                                                                         *)
(* Numbers.  The JavaScript code computes in IEEE doubles; here every      *)
(* quantity is a scaled integer:                                           *)
(*   percentages (fade, health)   in micro-percent   (Pct  = 10^6 per 1 %) *)
(*   capacities of the payload    in thousandths     (Ah   = 10^3 per unit)*)
(*   rounded percentages/capacity in hundredths      (toFixed(2))          *)
(*   calendar age                 in 10^-4 years     (Unit = 10^4 per year)*)
(*   cRate                        in tenths of C                           *)
(*   the calibration factor       as an exact fraction num/den             *)
(* Math.sqrt is the integer square root of the scaled argument, Math.pow   *)
(* with a fractional exponent is a product of iterated square roots, and   *)
(* Math.exp is tabulated for the temperatures of the model.                *)
(***************************************************************************)
EXTENDS Integers, Sequences, FiniteSets, TLC

(***************************************************************************)
(* Scales                                                                  *)
(***************************************************************************)
Unit == 10^4                \* fixed-point one: 1.0 year, 1.0 as a pow() base
Pct == 10^6                 \* micro-percent per percent
Hundred == 100 * Pct        \* 100 %
Cent == Pct \div 100        \* micro-percent per 0.01 %
Ah == 10^3                  \* thousandths per unit of capacity (Ah, kWh, Wh)

Max(a, b) == IF a >= b THEN a ELSE b
Min(a, b) == IF a <= b THEN a ELSE b

(***************************************************************************)
(* floor(a * b / c) and the remainder, for 0 <= a, b and 0 < c, without    *)
(* forming the product a * b (which does not fit the machine integer of    *)
(* the checker): double-and-add over the bits of b.                        *)
(***************************************************************************)
\* the digits of b are taken two bits at a time where the remainders allow it
\* (7 * c fits the integers), one bit at a time otherwise
Radix(c) == IF c <= 300000000 THEN 4 ELSE 2

RECURSIVE MulDivQR(_, _, _)
MulDivQR(a, b, c) ==
    IF b = 0 THEN <<0, 0>>
    ELSE LET radix == Radix(c)
             h == MulDivQR(a, b \div radix, c)
             e == b % radix
             r == radix * h[2] + e * (a % c)
         IN  <<radix * h[1] + e * (a \div c) + (r \div c), r % c>>

\* floor(a * b / c); defined for a, b >= 0 and c > 0 only
MulDiv(a, b, c) ==
    CASE a >= 0 /\ b >= 0 /\ c > 0 -> MulDivQR(a, b, c)[1]

\* a * b / c rounded to the nearest integer, halves up (a, b >= 0, c > 0)
MulDivRound(a, b, c) ==
    CASE a >= 0 /\ b >= 0 /\ c > 0 ->
        LET qr == MulDivQR(a, b, c)
        IN  qr[1] + (IF 2 * qr[2] >= c THEN 1 ELSE 0)

(***************************************************************************)
(* Math.sqrt: the integer square root, by bisection.                       *)
(***************************************************************************)
RECURSIVE SqrtBetween(_, _, _)
SqrtBetween(n, lo, hi) ==
    IF lo >= hi THEN lo
    ELSE LET mid == (lo + hi + 1) \div 2
         IN  IF mid * mid <= n THEN SqrtBetween(n, mid, hi)
                               ELSE SqrtBetween(n, lo, mid - 1)

ISqrt(n) == SqrtBetween(n, 0, Min(n, 46340))

\* sqrt of the fixed-point x (x / Unit), as the nearest fixed-point number
FSqrt(x) ==
    LET s == ISqrt(x * Unit)
    IN  IF x * Unit - s * s > s THEN s + 1 ELSE s

(***************************************************************************)
(* Math.pow(x, e) for 0 < e < 1: e is given by the positions of the ones   *)
(* of its binary expansion, x^e = product of x^(1/2^k) over those k.       *)
(***************************************************************************)
RECURSIVE PowBits(_, _, _, _)
PowBits(root, k, bits, acc) ==
    IF \A j \in bits : j < k THEN acc
    ELSE LET r == FSqrt(root)
         IN  PowBits(r, k + 1, bits,
                     IF k \in bits THEN (acc * r + Unit \div 2) \div Unit
                                    ELSE acc)

Pow(x, bits) == IF x = 0 THEN 0 ELSE PowBits(x, 1, bits, Unit)

(***************************************************************************)
(* JavaScript objects and values                                           *)
(***************************************************************************)
\* An object is a function from its present keys to their values.
Has(obj, key) == key \in DOMAIN obj
\* destructuring with a default: const { key = dflt } = obj
Get(obj, key, dflt) == IF Has(obj, key) THEN obj[key] ELSE dflt
\* obj.key || dflt: a missing key and the number 0 are both falsy
GetOr(obj, key, dflt) == IF Has(obj, key) /\ obj[key] # 0 THEN obj[key] ELSE dflt
\* truthiness of obj.key
Truthy(obj, key) == Has(obj, key) /\ obj[key] # 0
\* { ...obj, key: value }
With(obj, key, value) ==
    [k \in DOMAIN obj \cup {key} |-> IF k = key THEN value ELSE obj[k]]
\* { ...obj, key: null }
Without(obj, key) == [k \in DOMAIN obj \ {key} |-> obj[k]]

\* +x.toFixed(2) of a micro-percent value, in hundredths
ToFixed2(x) ==
    IF x >= 0 THEN (x + Cent \div 2) \div Cent
              ELSE -((-x + Cent \div 2) \div Cent)

\* a calibration factor is the fraction num / den, den > 0
Factor(n, d) == [num |-> n, den |-> d]
One == Factor(1, 1)
\* x * factor
Scale(x, f) ==
    IF f.num >= 0 THEN MulDiv(x, f.num, f.den)
                  ELSE -MulDiv(x, -f.num, f.den)
\* comparisons of a factor with the decimal n / 10:
\* num / den >= n / 10 and num / den <= n / 10
FactorGeq(f, n) ==
    LET qr == MulDivQR(f.den, n, 10)
    IN  f.num >= qr[1] + (IF qr[2] > 0 THEN 1 ELSE 0)
FactorLeq(f, n) == f.num <= MulDivQR(f.den, n, 10)[1]

(***************************************************************************)
(* computeDegradation(payload, calibrationFactor = 1.0)                    *)
(***************************************************************************)
\* arrhenius(Tk, Ea) = exp(-Ea / (R * Tk)) with Ea = 25000, R = 8.314 and
\* Tk = avgTemperature + 273.15, in units of 10^-9, by avgTemperature
\* variant: the sign of the exponent is lost, exp(Ea / (R * Tk)) falls with
\* the temperature (the same table read from the hot end)
arrhenius_inverted ==
    [T \in {-40, 0, 25, 32, 80} |->
        CASE T = -40 -> 200494
          [] T = 0  -> 52532
          [] T = 25 -> 41682
          [] T = 32 -> 16560
          [] T = 80 -> 2505]

arrhenius ==
    [T \in {-40, 0, 25, 32, 80} |->
        CASE T = -40 -> 2505
          [] T = 0  -> 16560
          [] T = 25 -> 41682
          [] T = 32 -> 52532
          [] T = 80 -> 200494]

alpha == {1, 4, 5, 8, 9, 12, 13}   \* 0.6 = 0.1001100110011b (DoD exponent)
beta == {1, 3, 4, 7, 8, 11, 12}    \* 0.7 = 0.1011001100110b (time exponent)
eolPct == 70

\* years: calendarAgeYears if it is a number, else (calendarAgeMonths || 0)/12,
\* floored at 0
Years(payload) ==
    IF Has(payload, "calendarAgeYears")
    THEN Max(payload.calendarAgeYears, 0)
    ELSE Max((GetOr(payload, "calendarAgeMonths", 0) * Unit) \div 12, 0)

\* cRate > 1 ? 1 + (cRate - 1) * 0.5 : 1.0, in twentieths (cRate in tenths)
cRateAccel(cRate) == IF cRate > 10 THEN 20 + (cRate - 10) ELSE 20

\* Math.pow(Math.max(dodPct, 0) / 100, alpha), fixed-point
DoD_factor(dodPct) == Pow((Max(dodPct, 0) * Unit) \div 100, alpha)

\* variant: the square root is taken of the cycles left of a 1000-cycle life
cycleFadeBase_remaining(chargeCycles, dodPct, cRate) ==
    MulDiv(DoD_factor(dodPct) * ISqrt(Max(1000 - chargeCycles, 0) * Pct),
           3 * cRateAccel(cRate), 400)

\* variant: the cycle count is floored at 1 instead of 0
cycleFadeBase_floorOne(chargeCycles, dodPct, cRate) ==
    MulDiv(DoD_factor(dodPct) * ISqrt(Max(chargeCycles, 1) * Pct),
           3 * cRateAccel(cRate), 400)

\* 0.015 * DoD_factor * Math.sqrt(Math.max(chargeCycles, 0)) * cRateAccel * 100
\* at calibration factor 1.0, in micro-percent; the square root in thousandths
cycleFadeBase(chargeCycles, dodPct, cRate) ==
    MulDiv(DoD_factor(dodPct) * ISqrt(Max(chargeCycles, 0) * Pct),
           3 * cRateAccel(cRate), 400)

\* years > 0 ? 0.01 * arrhenius(Tk, Ea) * Math.pow(years, beta) : 0, times 100,
\* at calibration factor 1.0, in micro-percent
calendarFadeBase(avgTemperature, years) ==
    IF years > 0
    THEN MulDiv(arrhenius[avgTemperature], Pow(years, beta), 1000 * Unit)
    ELSE 0

\* currentCapacity / nominalCapacity * 100 clamped to [0, 100], for a truthy
\* currentCapacity >= 0; a zero nominalCapacity divides to +Infinity
MeasuredHealth(currentCapacity, nominalCapacity) ==
    IF nominalCapacity = 0 THEN Hundred
    ELSE IF nominalCapacity < 0 THEN 0
    ELSE IF currentCapacity >= nominalCapacity THEN Hundred
    ELSE MulDiv(currentCapacity, Hundred, nominalCapacity)

\* variant: the monthly fade rate is floored at 0.02 instead of 0.05
MonthsToEol_lowFloor(soh, years) ==
    LET yearsElapsed == Max(years, Unit \div 10)
        monthsElapsed == Max(Unit, yearsElapsed * 12)
        currentFadePct == Hundred - soh
        remainingFadeNeeded == soh - eolPct * Pct
    IN  IF remainingFadeNeeded <= 0 THEN 0
        ELSE IF currentFadePct >= 2 * monthsElapsed
        THEN (MulDiv(remainingFadeNeeded, monthsElapsed, currentFadePct)
                + Unit \div 2) \div Unit
        ELSE (50 * remainingFadeNeeded + Pct \div 2) \div Pct

\* Math.round(Math.max(0, (soh - eolPct) / monthlyFadeRate)) with
\* monthlyFadeRate = Math.max((100 - soh) / monthsElapsed, 0.05)
MonthsToEol(soh, years) ==
    LET yearsElapsed == Max(years, Unit \div 10)
        monthsElapsed == Max(Unit, yearsElapsed * 12)      \* 10^-4 months
        currentFadePct == Hundred - soh
        remainingFadeNeeded == soh - eolPct * Pct
    IN  IF remainingFadeNeeded <= 0 THEN 0
        ELSE IF currentFadePct >= 5 * monthsElapsed        \* rate >= 0.05
        THEN (MulDiv(remainingFadeNeeded, monthsElapsed, currentFadePct)
                + Unit \div 2) \div Unit
        ELSE (20 * remainingFadeNeeded + Pct \div 2) \div Pct

\* variant: modelHealthPct is not floored at 0
DegradationResult_noFloor(payload, years, cycleFade, calendarFade, totalFadePct) ==
    LET nominalCapacity == Get(payload, "nominalCapacity", 100 * Ah)
        modelHealthPct == Hundred - totalFadePct
        observedHealthPct ==
            IF Truthy(payload, "currentCapacity")
            THEN MeasuredHealth(payload.currentCapacity, nominalCapacity)
            ELSE modelHealthPct
        soh == observedHealthPct
    IN  [healthPct |-> observedHealthPct,
         soh |-> soh,
         eolPct |-> eolPct,
         estimatedRUIMonths |-> MonthsToEol(soh, years),
         modelHealthPct |-> modelHealthPct,
         components |-> [cycleFadePct |-> ToFixed2(cycleFade),
                         calendarFadePct |-> ToFixed2(calendarFade)]]

\* lines 60-90: the result, given the years and the three fades in
\* micro-percent
DegradationResult(payload, years, cycleFade, calendarFade, totalFadePct) ==
    LET nominalCapacity == Get(payload, "nominalCapacity", 100 * Ah)
        modelHealthPct == Max(0, Hundred - totalFadePct)
        observedHealthPct ==
            IF Truthy(payload, "currentCapacity")
            THEN MeasuredHealth(payload.currentCapacity, nominalCapacity)
            ELSE modelHealthPct
        soh == observedHealthPct
    IN  [healthPct |-> observedHealthPct,
         soh |-> soh,
         eolPct |-> eolPct,
         estimatedRUIMonths |-> MonthsToEol(soh, years),
         modelHealthPct |-> modelHealthPct,
         components |-> [cycleFadePct |-> ToFixed2(cycleFade),
                         calendarFadePct |-> ToFixed2(calendarFade)]]

\* the factor multiplies both coefficients (k_c_base, k_t_base)
CalibratedResult(payload, calibrationFactor, years, cycleBase, calendarBase) ==
    DegradationResult(payload, years,
                      Scale(cycleBase, calibrationFactor),
                      Scale(calendarBase, calibrationFactor),
                      Scale(cycleBase + calendarBase, calibrationFactor))

computeDegradation(payload, calibrationFactor) ==
    CalibratedResult(payload, calibrationFactor, Years(payload),
                     cycleFadeBase(Get(payload, "chargeCycles", 0),
                                   Get(payload, "dodPct", 80),
                                   Get(payload, "cRate", 8)),
                     calendarFadeBase(Get(payload, "avgTemperature", 25),
                                      Years(payload)))

(***************************************************************************)
(* calculateCalibrationFactor(payload)                                     *)
(* Returns the factor and the number of calls of computeDegradation made.  *)
(* The payload's nominalCapacity is read without a default.                *)
(***************************************************************************)
\* 100 - (currentCapacity / nominalCapacity) * 100 for nominalCapacity # 0
ActualFade(currentCapacity, nominalCapacity) ==
    IF nominalCapacity > 0
    THEN Hundred - MulDiv(currentCapacity, Hundred, nominalCapacity)
    ELSE Hundred + MulDiv(currentCapacity, Hundred, -nominalCapacity)

\* variant: the lower bound 0.1 is not applied
ClampFactor_noFloor(actualFadePct, modelFadePct) ==
    IF actualFadePct > 3 * modelFadePct THEN Factor(3, 1)
    ELSE Factor(actualFadePct, modelFadePct)

\* Math.max(0.1, Math.min(3.0, actualFadePct / modelFadePct)), modelFadePct > 0
ClampFactor(actualFadePct, modelFadePct) ==
    IF actualFadePct > 3 * modelFadePct THEN Factor(3, 1)
    ELSE IF actualFadePct <= (modelFadePct - 1) \div 10 THEN Factor(1, 10)
    ELSE Factor(actualFadePct, modelFadePct)

\* lines 102-111: the factor, given modelFadePct = 100 - modelHealthPct
CalibrationFrom(payload, modelFadePct) ==
    IF modelFadePct < Pct \div 10 THEN One
    ELSE IF payload.nominalCapacity = 0
    THEN Factor(1, 10)          \* -Infinity, clamped
    ELSE ClampFactor(ActualFade(payload.currentCapacity,
                                payload.nominalCapacity),
                     modelFadePct)

calculateCalibrationFactor(payload) ==
    IF ~Truthy(payload, "currentCapacity")
         \/ (Has(payload, "chargeCycles") /\ payload.chargeCycles < 50)
    THEN [factor |-> One, modelCalls |-> 0]
    ELSE [factor |->
             CalibrationFrom(payload,
                             Hundred - computeDegradation(payload, One)
                                           .modelHealthPct),
          modelCalls |-> 1]

(***************************************************************************)
(* buildTrend(payload)                                                     *)
(***************************************************************************)
\* variant: the step does not grow with the cycle count
Step_constant(totalCycles) == 25

\* Math.max(25, Math.floor(totalCycles / 20) || 25)
Step(totalCycles) ==
    LET q == totalCycles \div 20
    IN  Max(25, IF q = 0 THEN 25 ELSE q)

\* calendarAgeYears if it is a number, else (calendarAgeMonths || 0) / 12
TotalYears(payload) ==
    IF Has(payload, "calendarAgeYears")
    THEN payload.calendarAgeYears
    ELSE (GetOr(payload, "calendarAgeMonths", 0) * Unit) \div 12

\* variant: the capacity is rounded up to the next hundredth
TrendPoint_ceiling(cycle, sim, nominalCapacity) ==
    [cycle |-> cycle,
     healthPct |-> ToFixed2(sim.healthPct),
     capacity |->
        LET qr == MulDivQR(sim.healthPct,
                           IF nominalCapacity >= 0 THEN nominalCapacity
                                                   ELSE -nominalCapacity,
                           Pct * Ah)
            up == qr[1] + (IF qr[2] > 0 THEN 1 ELSE 0)
        IN  IF nominalCapacity >= 0 THEN up ELSE -up]

\* { cycle, healthPct: +sim.healthPct.toFixed(2), capacity: +capacity.toFixed(2) }
\* with capacity = (sim.healthPct / 100) * nominalCapacity
TrendPoint(cycle, sim, nominalCapacity) ==
    [cycle |-> cycle,
     healthPct |-> ToFixed2(sim.healthPct),
     capacity |->
        IF nominalCapacity >= 0
        THEN MulDivRound(sim.healthPct, nominalCapacity, Pct * Ah)
        ELSE -MulDivRound(sim.healthPct, -nominalCapacity, Pct * Ah)]

\* the payload of the simulation at cycle i of the loop
LoopPayload(payload, i, totalCycles) ==
    [chargeCycles |-> i,
     avgTemperature |-> Get(payload, "avgTemperature", 25),
     nominalCapacity |-> Get(payload, "nominalCapacity", 100 * Ah),
     dodPct |-> Get(payload, "dodPct", 80),
     cRate |-> Get(payload, "cRate", 8),
     calendarAgeYears |->
        MulDiv(TotalYears(payload), i, Max(IF totalCycles = 0 THEN 1
                                           ELSE totalCycles, 1))]

\* for (let i = 0; i <= totalCycles; i += step) points.push(...): the loop
\* runs for the cycles i, i + step, ... up to totalCycles (step > 0)
TrendLoop(payload, i, step, totalCycles, calibrationFactor, points) ==
    points \o
    [k \in 1..(IF i > totalCycles THEN 0 ELSE (totalCycles - i) \div step + 1) |->
        TrendPoint(i + (k - 1) * step,
                   computeDegradation(
                       LoopPayload(payload, i + (k - 1) * step, totalCycles),
                       calibrationFactor),
                   Get(payload, "nominalCapacity", 100 * Ah))]

\* variant: the final simulation keeps the measured currentCapacity
EndPayload_keepsMeasurement(payload, totalCycles) ==
    With(With(payload, "chargeCycles", totalCycles),
         "calendarAgeYears", TotalYears(payload))

\* the payload of the final simulation: { ...payload, currentCapacity: null,
\* chargeCycles: totalCycles, calendarAgeYears: yearsAtEnd }
EndPayload(payload, totalCycles) ==
    With(With(Without(payload, "currentCapacity"),
              "chargeCycles", totalCycles),
         "calendarAgeYears", TotalYears(payload))

\* lines 160-179: the final point, when the loop stopped short of totalCycles
FinalPoint(payload, totalCycles, calibrationFactor, points) ==
    IF points[Len(points)].cycle < totalCycles
    THEN Append(points,
                TrendPoint(totalCycles,
                           computeDegradation(EndPayload(payload, totalCycles),
                                              calibrationFactor),
                           Get(payload, "nominalCapacity", 100 * Ah)))
    ELSE points

\* lines 132-181: the points for a given totalCycles and calibrationFactor
TrendWith(payload, totalCycles, calibrationFactor) ==
    FinalPoint(payload, totalCycles, calibrationFactor,
               TrendLoop(payload, 0, Step(totalCycles), totalCycles,
                         calibrationFactor, <<>>))

\* variant: the final point at totalCycles is never appended
buildTrend_noFinalPoint(payload) ==
    TrendLoop(payload, 0, Step(Max(Get(payload, "chargeCycles", 0), 0)),
              Max(Get(payload, "chargeCycles", 0), 0),
              calculateCalibrationFactor(payload).factor, <<>>)

\* variant: the final point is appended whenever the last sampled cycle is
\* <= totalCycles, also when the loop ended exactly on totalCycles
buildTrend_alwaysFinalPoint(payload) ==
    LET totalCycles == Max(Get(payload, "chargeCycles", 0), 0)
        calibrationFactor == calculateCalibrationFactor(payload).factor
    IN  Append(TrendLoop(payload, 0, Step(totalCycles), totalCycles,
                         calibrationFactor, <<>>),
               TrendPoint(totalCycles,
                          computeDegradation(EndPayload(payload, totalCycles),
                                             calibrationFactor),
                          Get(payload, "nominalCapacity", 100 * Ah)))

\* variant: the trend is generated with the uncalibrated model
buildTrend_uncalibrated(payload) ==
    TrendWith(payload, Max(Get(payload, "chargeCycles", 0), 0), One)

buildTrend(payload) ==
    TrendWith(payload, Max(Get(payload, "chargeCycles", 0), 0),
              calculateCalibrationFactor(payload).factor)

(***************************************************************************)
(* getModelConfidence(payload)                                             *)
(***************************************************************************)
\* lines 198-216: the confidence for a calibration factor
ConfidenceFor(calibrationFactor) ==
    IF FactorGeq(calibrationFactor, 8) /\ FactorLeq(calibrationFactor, 12)
    THEN [level |-> "high",
          description |-> "Model closely matches measured performance",
          accuracy |-> "2 months"]
    ELSE IF FactorGeq(calibrationFactor, 5) /\ FactorLeq(calibrationFactor, 20)
    THEN [level |-> "medium",
          description |-> "Model adjusted based on actual measurements",
          accuracy |-> "4 months"]
    ELSE [level |-> "low",
          description |->
             "Significant deviation between model and measurements",
          accuracy |-> "6 months"]

getModelConfidence(payload) ==
    IF ~Truthy(payload, "currentCapacity")
         \/ (Has(payload, "chargeCycles") /\ payload.chargeCycles < 50)
    THEN [level |-> "low",
          description |-> "Insufficient cycle data for accurate prediction",
          accuracy |-> "6 months"]
    ELSE ConfidenceFor(calculateCalibrationFactor(payload).factor)

(***************************************************************************)
(* BatteryService (src/src/services/battery.service.js)                    *)
(***************************************************************************)
\* variant: the thresholds are exclusive (soh > 90, > 80, > 70, > 60)
determineBatteryStatus_exclusive(soh, measured) ==
    LET dataSource == IF measured THEN "measured" ELSE "estimated"
        status == IF soh > 90 * Pct THEN "Excellent"
                  ELSE IF soh > 80 * Pct THEN "Good"
                  ELSE IF soh > 70 * Pct THEN "Fair"
                  ELSE IF soh > 60 * Pct THEN "Poor"
                  ELSE "Critical"
        color == CASE status = "Excellent" -> "green"
                   [] status = "Good" -> "lightgreen"
                   [] status = "Fair" -> "yellow"
                   [] status = "Poor" -> "orange"
                   [] status = "Critical" -> "red"
    IN  [status |-> status, description |-> dataSource, color |-> color]

\* determineBatteryStatus(soh, currentCapacity); the description is the
\* status text with the data source
determineBatteryStatus(soh, measured) ==
    LET dataSource == IF measured THEN "measured" ELSE "estimated"
        status == IF soh >= 90 * Pct THEN "Excellent"
                  ELSE IF soh >= 80 * Pct THEN "Good"
                  ELSE IF soh >= 70 * Pct THEN "Fair"
                  ELSE IF soh >= 60 * Pct THEN "Poor"
                  ELSE "Critical"
        color == CASE status = "Excellent" -> "green"
                   [] status = "Good" -> "lightgreen"
                   [] status = "Fair" -> "yellow"
                   [] status = "Poor" -> "orange"
                   [] status = "Critical" -> "red"
    IN  [status |-> status, description |-> dataSource, color |-> color]

\* generateRecommendations(input, degradationResult): the category and
\* priority of each recommendation, in order
generateRecommendations(input, degradationResult) ==
    LET above(key, limit) == Has(input, key) /\ input[key] > limit
        temperature ==
            IF above("avgTemperature", 35)
            THEN <<[category |-> "Temperature Management", priority |-> "High"]>>
            ELSE IF above("avgTemperature", 30)
            THEN <<[category |-> "Temperature Management", priority |-> "Medium"]>>
            ELSE <<>>
        dod == IF above("dodPct", 90)
               THEN <<[category |-> "Usage Pattern", priority |-> "Medium"]>>
               ELSE <<>>
        rate == IF above("cRate", 15)
                THEN <<[category |-> "Charging Rate", priority |-> "Medium"]>>
                ELSE <<>>
        health == IF degradationResult.soh < 75 * Pct
                  THEN <<[category |-> "Maintenance", priority |-> "High"]>>
                  ELSE <<>>
        cycles == IF above("chargeCycles", 1000)
                  THEN <<[category |-> "Lifecycle Management", priority |-> "Low"]>>
                  ELSE <<>>
        recommendations == temperature \o dod \o rate \o health \o cycles
    IN  IF Len(recommendations) = 0
        THEN <<[category |-> "Maintenance", priority |-> "Low"]>>
        ELSE recommendations

\* lines 22-67: the response (without meta.generatedAt, the time of the call)
AnalysisResult(input, degradationResult, trend, confidence) ==
    LET status == determineBatteryStatus(degradationResult.soh,
                                         Truthy(input, "currentCapacity"))
    IN  [meta |->
           [unitCapacity |-> "Ah",
            modelVersion |-> "v1.0-calibrated",
            assumptions |->
               [tempAccelerationAbove30C |-> 15,
                baseCycleFadePer100 |-> 2,
                calibrationApplied |->
                   Truthy(input, "currentCapacity")]],
        input |->
           [chargeCycles |-> GetOr(input, "chargeCycles", 0),
            avgTemperature |-> GetOr(input, "avgTemperature", 25),
            nominalCapacity |-> input.nominalCapacity,
            currentCapacity |->
               IF Truthy(input, "currentCapacity")
               THEN <<input.currentCapacity>> ELSE <<>>,
            cRate |-> GetOr(input, "cRate", 8),
            dodPct |-> GetOr(input, "dodPct", 80),
            calendarAgeMonths |->
               GetOr(input, "calendarAgeMonths", 0),
            unit |-> "Ah"],
        results |->
           [healthPercentage |-> degradationResult.healthPct,
            stateOfHealthSOH |-> degradationResult.soh,
            endOfLifeThresholdPct |-> degradationResult.eolPct,
            estimatedRemainingUsefulLifeMonths |->
               degradationResult.estimatedRUIMonths,
            status |-> status.status,
            statusDescription |-> status.description,
            confidence |-> confidence,
            degradationComponents |->
               [cycleFadePct |->
                   degradationResult.components.cycleFadePct,
                calendarFadePct |->
                   degradationResult.components.calendarFadePct,
                totalFadePct |->
                   degradationResult.components.cycleFadePct
                     + degradationResult.components.calendarFadePct],
            trend |-> trend,
            recommendations |->
               generateRecommendations(input, degradationResult)]]

\* variant: a zero nominalCapacity passes the validation (the test is
\* 'nominalCapacity === undefined || nominalCapacity < 0')
analyzeBatteryHealth_zeroAccepted(input) ==
    IF ~Has(input, "nominalCapacity") \/ input.nominalCapacity < 0
    THEN [threw |-> TRUE,
          value |-> "Battery analysis failed: nominalCapacity must be a positive number",
          engineCalls |-> 0]
    ELSE [threw |-> FALSE,
          value |-> AnalysisResult(input, computeDegradation(input, One),
                                   buildTrend(input),
                                   getModelConfidence(input)),
          engineCalls |-> 3]

\* BatteryService.analyzeBatteryHealth(input): what it throws, or what it
\* returns, and the number of engine functions (computeDegradation,
\* buildTrend, getModelConfidence) it has called
analyzeBatteryHealth(input) ==
    IF ~Truthy(input, "nominalCapacity") \/ input.nominalCapacity <= 0
    THEN [threw |-> TRUE,
          value |-> "Battery analysis failed: nominalCapacity must be a positive number",
          engineCalls |-> 0]
    ELSE [threw |-> FALSE,
          value |-> AnalysisResult(input, computeDegradation(input, One),
                                   buildTrend(input),
                                   getModelConfidence(input)),
          engineCalls |-> 3]

\* lines 207-213: { ...input, calendarAgeMonths: input.calendarAgeMonths ||
\* Math.max(12, Math.floor(input.chargeCycles / 20)), avgTemperature:
\* input.avgTemperature || 25, dodPct: input.dodPct || 80 }.  Without
\* chargeCycles the estimate is NaN, which computeDegradation reads as 0 months
\* ('calendarAgeMonths || 0').
EnhancedInput(input) ==
    With(With(With(input, "calendarAgeMonths",
                   GetOr(input, "calendarAgeMonths",
                         IF Has(input, "chargeCycles")
                         THEN Max(12, input.chargeCycles \div 20)
                         ELSE 0)),
              "avgTemperature", GetOr(input, "avgTemperature", 25)),
         "dodPct", GetOr(input, "dodPct", 80))

\* lines 215-230: the summary; null is the empty tuple, a value v is <<v>>,
\* and the NaN estimate of a request without chargeCycles is "NaN"
HealthSummary(input, enhancedInput, degradationResult, confidence) ==
    [healthPercentage |-> degradationResult.healthPct,
     status |-> determineBatteryStatus(degradationResult.soh,
                                       Truthy(input, "currentCapacity")).status,
     estimatedMonthsRemaining |-> degradationResult.estimatedRUIMonths,
     confidence |-> confidence.level,
     dataSource |-> IF Truthy(input, "currentCapacity")
                    THEN "measured" ELSE "estimated",
     assumptions |->
        [estimatedCalendarAge |->
            IF Truthy(input, "calendarAgeMonths") THEN <<>>
            ELSE IF Has(input, "chargeCycles")
            THEN <<enhancedInput.calendarAgeMonths>>
            ELSE <<"NaN">>,
         defaultTemperature |->
            IF Truthy(input, "avgTemperature") THEN <<>> ELSE <<25>>,
         defaultDoD |-> IF Truthy(input, "dodPct") THEN <<>> ELSE <<80>>]]

\* BatteryService.getHealthSummary(input)
SummaryOf(input, enhancedInput) ==
    HealthSummary(input, enhancedInput, computeDegradation(enhancedInput, One),
                  getModelConfidence(enhancedInput))

getHealthSummary(input) == SummaryOf(input, EnhancedInput(input))

(***************************************************************************)
(* Requests                                                                *)
(***************************************************************************)
MaxCycles == 600        \* the largest chargeCycles of the grid
MaxSweep == 60          \* the sweep covers every chargeCycles in 0..MaxSweep
LargeCycles == 2000     \* the largest chargeCycles a trend is built for

\* an optional field: absent, or present with a value of S
Opt(S) == {<<>>} \cup {<<v>> : v \in S}
Field(key, opt) == [k \in (IF opt = <<>> THEN {} ELSE {key}) |-> opt[1]]

CycleValues == {10, 50, 500, MaxCycles}
TemperatureValues == {25, 80}
CurrentValues == {0, 42 * Ah, 84 * Ah, 120 * Ah}
DodValues == {0, 80, 100}
CRateValues == {8, 50}
\* calendar age: none, calendarAgeMonths = 24, or calendarAgeYears = 10.0
AgeValues == {<<>>, <<"calendarAgeMonths", 24>>,
              <<"calendarAgeYears", 10 * Unit>>}
AgeField(age) == [k \in (IF age = <<>> THEN {} ELSE {age[1]}) |-> age[2]]

\* profiles with a valid nominalCapacity
Grid ==
    {Field("chargeCycles", cc) @@ Field("currentCapacity", cur) @@ AgeField(age)
       @@ [nominalCapacity |-> 100 * Ah, avgTemperature |-> T, dodPct |-> dod,
           cRate |-> cr] :
        cc \in Opt(CycleValues), cur \in Opt(CurrentValues), age \in AgeValues,
        T \in TemperatureValues, dod \in DodValues, cr \in CRateValues}

\* other nominal capacities, among them the invalid ones (zero, negative)
NominalValues == {-100 * Ah, 0, 50 * Ah}
OtherNominal ==
    {Field("currentCapacity", cur)
       @@ [nominalCapacity |-> nom, chargeCycles |-> cc, avgTemperature |-> 25,
           dodPct |-> 80, cRate |-> 8, calendarAgeMonths |-> 24] :
        nom \in NominalValues, cc \in {10, 550},
        cur \in Opt({0, 42 * Ah, 120 * Ah})}

\* the documented scenario (README, POST /analyze)
Scenario ==
    [nominalCapacity |-> 100 * Ah, currentCapacity |-> 84 * Ah,
     chargeCycles |-> 550,
     avgTemperature |-> 32, dodPct |-> 80, cRate |-> 8,
     calendarAgeMonths |-> 24]

\* every cycle count up to MaxSweep, with and without a measurement
Sweep ==
    {Field("currentCapacity", cur)
       @@ [nominalCapacity |-> 100 * Ah, chargeCycles |-> n, avgTemperature |-> 25,
           dodPct |-> 80, cRate |-> 8, calendarAgeMonths |-> 24] :
        n \in 0..MaxSweep, cur \in Opt({84 * Ah})}

\* an old battery (21 years) at every tabulated temperature
ThermalValues == DOMAIN arrhenius
Thermal ==
    {[nominalCapacity |-> 100 * Ah, chargeCycles |-> 100, avgTemperature |-> T,
      dodPct |-> 80, cRate |-> 8, calendarAgeYears |-> 21 * Unit] :
        T \in ThermalValues}

\* a new battery: no cycles and no calendar age, given in each of three ways
Ideal ==
    {AgeField(age)
       @@ [nominalCapacity |-> 100 * Ah, chargeCycles |-> 0, avgTemperature |-> T,
           dodPct |-> dod, cRate |-> cr] :
        age \in {<<>>, <<"calendarAgeMonths", 0>>, <<"calendarAgeYears", 0>>},
        T \in ThermalValues, dod \in DodValues, cr \in CRateValues}

\* requests without nominalCapacity (and without a measurement to relate to it)
MissingNominal ==
    {Field("currentCapacity", cur)
       @@ [chargeCycles |-> cc, avgTemperature |-> 25, dodPct |-> 80,
           cRate |-> 8, calendarAgeMonths |-> 24] :
        cc \in {10, 550}, cur \in Opt({0})}

\* cycle counts around the changes of the trend's length: negative, below one
\* step, around 500 = 20 * 25, and large
LengthValues == {-5, 1, 24, 25, 499, 501, LargeCycles - 1, LargeCycles}
Lengths ==
    {Field("currentCapacity", cur)
       @@ [nominalCapacity |-> 100 * Ah, chargeCycles |-> n, avgTemperature |-> 25,
           dodPct |-> 80, cRate |-> 8, calendarAgeMonths |-> 24] :
        n \in LengthValues, cur \in Opt({84 * Ah})}

\* small batteries whose nominalCapacity has three decimals (0.121, 0.125)
SmallNominalValues == {121, 125}
Small ==
    {[nominalCapacity |-> nom, chargeCycles |-> cc, avgTemperature |-> 25,
      dodPct |-> 80, cRate |-> 8, calendarAgeMonths |-> 24] :
        nom \in SmallNominalValues, cc \in {10, 550}}

Profiles ==
    Grid \cup OtherNominal \cup MissingNominal \cup Sweep \cup Thermal
        \cup Ideal \cup Lengths \cup Small \cup {Scenario}

\* calibration factors a caller passes to computeDegradation
Factors == {One, Factor(1, 2), Factor(3, 1)}

(***************************************************************************)
(* The engine as a state machine: a caller holds a payload, calls one of   *)
(* the functions and receives its result; the result is then dropped and   *)
(* the next call can be made.                                              *)
(***************************************************************************)
VARIABLES
    payload,        \* the request object
    fn,             \* the function called last, "idle" before a call
    factorArg,      \* the calibrationFactor argument of computeDegradation
    outcome,        \* "none", "returned" or "threw"
    result          \* the value returned, or the message of the error thrown

vars == <<payload, fn, factorArg, outcome, result>>

Init ==
    /\ payload \in Profiles
    /\ fn = "idle"
    /\ factorArg = One
    /\ outcome = "none"
    /\ result = <<>>

ComputeDegradation ==
    /\ fn = "idle"
    /\ \E f \in Factors :
          /\ factorArg' = f
          /\ result' = computeDegradation(payload, f)
    /\ fn' = "computeDegradation"
    /\ outcome' = "returned"
    /\ UNCHANGED payload

CalculateCalibrationFactor ==
    /\ fn = "idle"
    /\ result' = calculateCalibrationFactor(payload)
    /\ fn' = "calculateCalibrationFactor"
    /\ outcome' = "returned"
    /\ UNCHANGED <<payload, factorArg>>

\* variant: the final simulation's fields are assigned to the caller's object
\* (Object.assign(payload, ...) instead of the spread into a new object)
BuildTrend_assigning ==
    /\ fn = "idle"
    /\ result' = buildTrend(payload)
    /\ fn' = "buildTrend"
    /\ outcome' = "returned"
    /\ payload' = EndPayload(payload, Max(Get(payload, "chargeCycles", 0), 0))
    /\ UNCHANGED factorArg

BuildTrend ==
    /\ fn = "idle"
    /\ result' = buildTrend(payload)
    /\ fn' = "buildTrend"
    /\ outcome' = "returned"
    /\ UNCHANGED <<payload, factorArg>>

GetModelConfidence ==
    /\ fn = "idle"
    /\ result' = getModelConfidence(payload)
    /\ fn' = "getModelConfidence"
    /\ outcome' = "returned"
    /\ UNCHANGED <<payload, factorArg>>

AnalyzeBatteryHealth ==
    /\ fn = "idle"
    /\ \E r \in {analyzeBatteryHealth(payload)} :
          /\ outcome' = IF r.threw THEN "threw" ELSE "returned"
          /\ result' = r.value
    /\ fn' = "analyzeBatteryHealth"
    /\ UNCHANGED <<payload, factorArg>>

GetHealthSummary ==
    /\ fn = "idle"
    /\ result' = getHealthSummary(payload)
    /\ fn' = "getHealthSummary"
    /\ outcome' = "returned"
    /\ UNCHANGED <<payload, factorArg>>

\* the caller is done with the result
Done ==
    /\ fn # "idle"
    /\ fn' = "idle"
    /\ factorArg' = One
    /\ outcome' = "none"
    /\ result' = <<>>
    /\ UNCHANGED payload

Next ==
    \/ ComputeDegradation
    \/ CalculateCalibrationFactor
    \/ BuildTrend
    \/ GetModelConfidence
    \/ AnalyzeBatteryHealth
    \/ GetHealthSummary
    \/ Done

Spec == Init /\ [][Next]_vars

(***************************************************************************)
(* BatteryService.determineBatteryStatus on its own: the state of health   *)
(* is every whole percent and the hundredth below each threshold, the      *)
(* second argument is the caller's currentCapacity (absent, 0 or 84).      *)
(***************************************************************************)
SohValues ==
    {n * Pct : n \in 0..100} \cup {b * Pct - Cent : b \in {60, 70, 80, 90}}

StatusProfiles ==
    {Field("currentCapacity", cur) @@ Without(Scenario, "currentCapacity") :
        cur \in Opt({0, 84 * Ah})}

StatusInit ==
    /\ payload \in StatusProfiles
    /\ fn = "idle"
    /\ factorArg = One
    /\ outcome = "none"
    /\ result = <<>>

\* this.determineBatteryStatus(soh, input.currentCapacity); the state keeps
\* the soh passed next to the value returned
DetermineBatteryStatus ==
    /\ fn = "idle"
    /\ \E soh \in SohValues :
          result' = [soh |-> soh,
                     status |->
                        determineBatteryStatus(soh,
                                               Truthy(payload,
                                                      "currentCapacity"))]
    /\ fn' = "determineBatteryStatus"
    /\ outcome' = "returned"
    /\ UNCHANGED <<payload, factorArg>>

StatusNext ==
    \/ DetermineBatteryStatus
    \/ Done

StatusSpec == StatusInit /\ [][StatusNext]_vars

(***************************************************************************)
(* Properties                                                              *)
(***************************************************************************)
\* equality of two non-negative factors as fractions
FactorEq(f, g) == MulDivQR(f.num, g.den, f.den) = <<g.num, 0>>

\* the payload has a strictly positive nominalCapacity
ValidNominal == Has(payload, "nominalCapacity") /\ payload.nominalCapacity > 0

\* C1: for chargeCycles = N >= 0 (a missing chargeCycles is N = 0) the trend
\* is non-empty, starts at cycle 0 with healthPct 100 and ends at cycle N.
C1_TrendEndpoints ==
    (fn = "buildTrend" /\ Get(payload, "chargeCycles", 0) >= 0) =>
        /\ Len(result) >= 1
        /\ result[1].cycle = 0
        /\ result[1].healthPct = 100 * 100
        /\ result[Len(result)].cycle = Get(payload, "chargeCycles", 0)

\* a trend whose last point was appended after the loop (N = 550, step 27)
C1_Witness ==
    /\ fn = "buildTrend"
    /\ Get(payload, "chargeCycles", 0) = 550
    /\ Len(result) = 22
    /\ result[21].cycle = 540
    /\ result[22].cycle = 550

\* C2: for a valid profile the calibration factor lies in [0.1, 3.0].
C2_FactorBounded ==
    (fn = "calculateCalibrationFactor" /\ ValidNominal) =>
        /\ FactorGeq(result.factor, 1)
        /\ FactorLeq(result.factor, 30)

\* a measured capacity above the nominal one: the factor is clamped to 0.1
C2_Witness ==
    /\ fn = "calculateCalibrationFactor"
    /\ ValidNominal
    /\ Has(payload, "currentCapacity")
    /\ payload.currentCapacity > payload.nominalCapacity
    /\ result.modelCalls = 1
    /\ result.factor = Factor(1, 10)

\* C3: when currentCapacity is absent or chargeCycles < 50 (a missing
\* chargeCycles counts as 0) the factor is 1.0 and computeDegradation is not
\* called.
C3_NoCalibration ==
    (fn = "calculateCalibrationFactor"
       /\ (~Has(payload, "currentCapacity")
             \/ Get(payload, "chargeCycles", 0) < 50)) =>
        /\ FactorEq(result.factor, One)
        /\ result.modelCalls = 0

\* C4: with nominalCapacity <= 0 computeDegradation fails and returns nothing.
C4_InvalidProfileRaised ==
    (fn = "computeDegradation" /\ Has(payload, "nominalCapacity")
       /\ payload.nominalCapacity <= 0) =>
        outcome = "threw"

\* C5: getModelConfidence returns low / 6 months when there is no measurement
\* or chargeCycles < 50 (a missing chargeCycles counts as 0); otherwise, with f
\* the calibration factor, high / 2 months iff 0.8 <= f <= 1.2, medium /
\* 4 months iff f in [0.5, 0.8) or (1.2, 2.0], low / 6 months otherwise.
C5_ConfidenceMapping ==
    fn = "getModelConfidence" =>
        LET f == calculateCalibrationFactor(payload).factor
            level ==
                IF ~Has(payload, "currentCapacity")
                     \/ Get(payload, "chargeCycles", 0) < 50
                THEN "low"
                ELSE IF FactorGeq(f, 8) /\ FactorLeq(f, 12) THEN "high"
                ELSE IF FactorGeq(f, 5) /\ FactorLeq(f, 20) THEN "medium"
                ELSE "low"
        IN  /\ result.level = level
            /\ result.accuracy = (CASE level = "high" -> "2 months"
                                    [] level = "medium" -> "4 months"
                                    [] level = "low" -> "6 months")

\* C6: healthPct and soh are modelHealthPct when no currentCapacity is
\* supplied, and clamp(currentCapacity / nominalCapacity * 100, 0, 100) for
\* every supplied currentCapacity >= 0.
C6_ObservedHealth ==
    (fn = "computeDegradation" /\ ValidNominal) =>
        LET observed ==
                IF Has(payload, "currentCapacity")
                THEN Max(0, Min(Hundred, MulDiv(payload.currentCapacity,
                                                Hundred,
                                                payload.nominalCapacity)))
                ELSE result.modelHealthPct
        IN  result.healthPct = observed /\ result.soh = observed

\* C7: with a currentCapacity supplied (any value >= 0) and chargeCycles >= 50
\* the factor is 1.0 if the uncalibrated modelFadePct is below 0.1, and
\* otherwise actualFadePct / modelFadePct clamped to [0.1, 3.0].
C7_FactorFormula ==
    (fn = "calculateCalibrationFactor" /\ ValidNominal
       /\ Has(payload, "currentCapacity") /\ payload.currentCapacity >= 0
       /\ Has(payload, "chargeCycles") /\ payload.chargeCycles >= 50) =>
        LET modelFadePct ==
                Hundred - computeDegradation(payload, One).modelHealthPct
            actualFadePct ==
                Hundred - MulDiv(payload.currentCapacity, Hundred,
                                 payload.nominalCapacity)
        IN  IF modelFadePct < Pct \div 10
            THEN FactorEq(result.factor, One)
            ELSE IF actualFadePct > 3 * modelFadePct
            THEN FactorEq(result.factor, Factor(3, 1))
            ELSE IF 10 * actualFadePct < modelFadePct
            THEN FactorEq(result.factor, Factor(1, 10))
            ELSE FactorEq(result.factor, Factor(actualFadePct, modelFadePct))

\* C8: the trend is strictly ascending in cycle: consecutive points differ by
\* step = max(25, floor(totalCycles / 20)), except the last pair, which
\* differs by more than 0 and at most step.
C8_StrictlyAscending ==
    fn = "buildTrend" =>
        LET totalCycles == Max(Get(payload, "chargeCycles", 0), 0)
            step == Max(25, totalCycles \div 20)
        IN  \A k \in 1..(Len(result) - 1) :
               LET d == result[k + 1].cycle - result[k].cycle
               IN  IF k + 1 < Len(result) THEN d = step
                                          ELSE d > 0 /\ d <= step

\* a trend whose loop ends exactly on totalCycles (500 = 20 * 25): 21 points
\* and no appended point
C8_Witness ==
    /\ fn = "buildTrend"
    /\ Get(payload, "chargeCycles", 0) = 500
    /\ Len(result) = 21
    /\ result[20].cycle = 475
    /\ result[21].cycle = 500

\* the case of C9: a measured currentCapacity > 0, chargeCycles >= 50 and a
\* factor that is not clamped
C9_Unclamped ==
    /\ fn = "buildTrend"
    /\ ValidNominal
    /\ Has(payload, "currentCapacity") /\ payload.currentCapacity > 0
    /\ Has(payload, "chargeCycles") /\ payload.chargeCycles >= 50
    /\ LET modelFadePct ==
               Hundred - computeDegradation(payload, One).modelHealthPct
           actualFadePct ==
               Hundred - MulDiv(payload.currentCapacity, Hundred,
                                payload.nominalCapacity)
       IN  /\ modelFadePct >= Pct \div 10
           /\ 10 * actualFadePct >= modelFadePct
           /\ actualFadePct <= 3 * modelFadePct

\* the last point of the trend is the measurement
C9_EndsAtMeasurement ==
    /\ result[Len(result)].healthPct
         = ToFixed2(MulDiv(payload.currentCapacity, Hundred,
                           payload.nominalCapacity))
    /\ result[Len(result)].capacity = payload.currentCapacity \div (Ah \div 100)

\* C9 as stated: with a measured currentCapacity > 0, chargeCycles >= 50 and
\* an unclamped factor the trend ends at the measured state of health and at
\* capacity = currentCapacity.
C9_Original == C9_Unclamped => C9_EndsAtMeasurement

\* C9 amended: the same, provided the uncalibrated model health is above 0
\* (the uncalibrated total fade is below 100 %, so that modelHealthPct is not
\* floored).
C9_Amended ==
    (C9_Unclamped /\ computeDegradation(payload, One).modelHealthPct > 0) =>
        C9_EndsAtMeasurement

\* the documented scenario: nominal 100, current 84, 550 cycles ends at
\* {550, 84, 84}
C9_Witness ==
    /\ C9_Unclamped
    /\ payload = Scenario
    /\ result[Len(result)] = [cycle |-> 550, healthPct |-> 8400,
                              capacity |-> 8400]

\* C10: with the same calibration factor (in [0.1, 3.0]) a larger chargeCycles
\* never gives a smaller cycleFadePct, rounded to 2 decimals.
C10_MonotoneInCycles ==
    (fn = "computeDegradation"
       /\ FactorGeq(factorArg, 1) /\ FactorLeq(factorArg, 30)) =>
        \A n \in CycleValues \cup {Get(payload, "chargeCycles", 0) + 1} :
            n >= Get(payload, "chargeCycles", 0) =>
                computeDegradation(With(payload, "chargeCycles", n),
                                   factorArg).components.cycleFadePct
                    >= result.components.cycleFadePct

\* a positive cycle fade that a larger cycle count strictly increases
C10_Witness ==
    /\ fn = "computeDegradation"
    /\ factorArg = Factor(1, 2)
    /\ Get(payload, "chargeCycles", 0) = 50
    /\ result.components.cycleFadePct > 0
    /\ computeDegradation(With(payload, "chargeCycles", 550),
                          factorArg).components.cycleFadePct
         > result.components.cycleFadePct

\* C11: with years > 0 and the same calibration factor, a profile that differs
\* only by a higher avgTemperature (within -40..80) has a calendarFadePct
\* greater than or equal to this one's, rounded and before rounding.
C11_MonotoneInTemperature ==
    (fn = "computeDegradation" /\ Years(payload) > 0) =>
        \A T \in ThermalValues :
            T >= Get(payload, "avgTemperature", 25) =>
                /\ computeDegradation(With(payload, "avgTemperature", T),
                                      factorArg).components.calendarFadePct
                      >= result.components.calendarFadePct
                /\ calendarFadeBase(T, Years(payload))
                      >= calendarFadeBase(Get(payload, "avgTemperature", 25),
                                          Years(payload))

\* 21 years at 25 degrees with factor 3.0 reports 0.00; at 80 degrees 0.01
C11_Witness ==
    /\ fn = "computeDegradation"
    /\ payload \in Thermal
    /\ payload.avgTemperature = 25
    /\ factorArg = Factor(3, 1)
    /\ result.components.calendarFadePct = 0
    /\ computeDegradation(With(payload, "avgTemperature", 80),
                          factorArg).components.calendarFadePct = 1

\* C12: with chargeCycles = 0, calendar age 0 and no currentCapacity,
\* computeDegradation yields cycleFadePct = 0, calendarFadePct = 0 and
\* modelHealthPct = 100 for every temperature, DoD, C-rate and factor; and with
\* dodPct = 0 the cycle fade is 0 for every cycle count.
C12_IdealConditions ==
    fn = "computeDegradation" =>
        /\ (Get(payload, "chargeCycles", 0) = 0 /\ Years(payload) = 0
               /\ ~Has(payload, "currentCapacity")) =>
              /\ result.components.cycleFadePct = 0
              /\ result.components.calendarFadePct = 0
              /\ result.modelHealthPct = Hundred
        /\ Get(payload, "dodPct", 80) = 0 =>
              result.components.cycleFadePct = 0

\* a new battery under the harshest conditions of the grid (80 degrees, full
\* discharge, 5C, factor 3.0)
C12_Witness ==
    /\ fn = "computeDegradation"
    /\ payload \in Ideal
    /\ payload.avgTemperature = 80 /\ payload.dodPct = 100 /\ payload.cRate = 50
    /\ factorArg = Factor(3, 1)
    /\ result.modelHealthPct = Hundred
    /\ result.components = [cycleFadePct |-> 0, calendarFadePct |-> 0]

\* C13: for every profile and every calibration factor passed, the returned
\* cycleFadePct and calendarFadePct are never negative, and modelHealthPct is
\* max(0, 100 - (cycle fade + calendar fade)) (to the 2 decimals of the
\* reported fades) and lies in [0, 100].
C13_FadesAndHealthBounded ==
    fn = "computeDegradation" =>
        LET fade == (result.components.cycleFadePct
                       + result.components.calendarFadePct) * Cent
            health == Max(0, Hundred - fade)
        IN  /\ result.components.cycleFadePct >= 0
            /\ result.components.calendarFadePct >= 0
            /\ result.modelHealthPct >= 0
            /\ result.modelHealthPct <= Hundred
            /\ result.modelHealthPct - health <= Cent
            /\ health - result.modelHealthPct <= Cent

\* a total fade above 100 %: modelHealthPct is held at 0
C13_Witness ==
    /\ fn = "computeDegradation"
    /\ factorArg = Factor(3, 1)
    /\ result.components.cycleFadePct > 100 * 100
    /\ result.modelHealthPct = 0

\* C14: estimatedRUIMonths is round(max(0, (observedHealthPct - 70) / rate))
\* with rate = max((100 - observedHealthPct) / monthsElapsed, 0.05) and
\* monthsElapsed = max(1, max(years, 0.1) * 12); it is never negative, 0
\* whenever observedHealthPct <= 70, at most 600, and defined for every
\* calendar age including 0.  m = round(x) is stated as m - 1/2 <= x < m + 1/2.
C14_RemainingLife ==
    fn = "computeDegradation" =>
        LET m == result.estimatedRUIMonths
            observed == result.healthPct
            monthsElapsed == Max(Unit, Max(Years(payload), Unit \div 10) * 12)
            fade == Hundred - observed
            remaining == observed - 70 * Pct
            \* floor of x in 10^-4 months, for the two cases of the rate
            x == IF fade >= 5 * monthsElapsed
                 THEN MulDivQR(remaining, monthsElapsed, fade)[1]
                 ELSE MulDivQR(remaining, 20 * Unit, Pct)[1]
        IN  /\ m \in 0..600
            /\ observed <= 70 * Pct => m = 0
            /\ remaining > 0 =>
                  /\ (2 * m - 1) * (Unit \div 2) <= x
                  /\ x < (2 * m + 1) * (Unit \div 2)

\* the documented scenario: health 84 after 24 months, 16 / 24 % per month,
\* 14 % left to the threshold: 21 months
C14_Witness ==
    /\ fn = "computeDegradation"
    /\ payload = Scenario
    /\ result.healthPct = 84 * Pct
    /\ result.estimatedRUIMonths = 21

\* C15: computeDegradation, buildTrend and getModelConfidence are pure: no
\* step changes the profile object the caller holds (there is no other state
\* to change), and whatever calls came before, in whatever order, the value a
\* call returns is the function of the profile and factor it was given.
C15_Pure ==
    [][/\ payload' = payload
       /\ fn' = "computeDegradation" =>
             result' = computeDegradation(payload, factorArg')
       /\ fn' = "buildTrend" => result' = buildTrend(payload)
       /\ fn' = "getModelConfidence" => result' = getModelConfidence(payload)
      ]_vars

\* buildTrend has run its final simulation on { ...payload, currentCapacity:
\* null, chargeCycles, calendarAgeYears }; the caller's profile still holds
\* the measurement and calendarAgeMonths, and no calendarAgeYears
C15_Witness ==
    /\ fn = "buildTrend"
    /\ payload = Scenario
    /\ Len(result) = 22
    /\ payload.currentCapacity = 84 * Ah
    /\ ~Has(payload, "calendarAgeYears")

\* C16: analyzeBatteryHealth raises 'Battery analysis failed: ...' whenever
\* nominalCapacity is missing, zero or negative; no engine function has been
\* called, and what reaches the caller is the error, not a result record.
C16_InvalidProfileRejected ==
    (fn = "analyzeBatteryHealth"
       /\ (~Has(payload, "nominalCapacity") \/ payload.nominalCapacity <= 0)) =>
        /\ outcome = "threw"
        /\ result = "Battery analysis failed: nominalCapacity must be a positive number"
        /\ analyzeBatteryHealth(payload).engineCalls = 0

\* a request with nominalCapacity 0 and a measurement has been rejected
C16_Witness ==
    /\ fn = "analyzeBatteryHealth"
    /\ Has(payload, "nominalCapacity") /\ payload.nominalCapacity = 0
    /\ Has(payload, "currentCapacity") /\ payload.currentCapacity = 42 * Ah
    /\ outcome = "threw"

\* C17: whenever analyzeBatteryHealth reports calibrationApplied = true, the
\* reported cycleFadePct, calendarFadePct and totalFadePct are those of the
\* model evaluated with the calibration factor of the measurement (the factor
\* of the trend).
C17_CalibratedComponents ==
    (fn = "analyzeBatteryHealth" /\ outcome = "returned"
       /\ result.meta.assumptions.calibrationApplied) =>
        LET calibrated ==
                computeDegradation(payload,
                                   calculateCalibrationFactor(payload).factor)
                    .components
            reported == result.results.degradationComponents
        IN  /\ reported.cycleFadePct = calibrated.cycleFadePct
            /\ reported.calendarFadePct = calibrated.calendarFadePct
            /\ reported.totalFadePct
                  = calibrated.cycleFadePct + calibrated.calendarFadePct

\* C18: determineBatteryStatus maps soh >= 90 to Excellent, 80 <= soh < 90 to
\* Good, 70 <= soh < 80 to Fair, 60 <= soh < 70 to Poor and soh < 60 to
\* Critical; currentCapacity only selects the measured / estimated wording.
C18_StatusThresholds ==
    fn = "determineBatteryStatus" =>
        /\ result.status.status
              = (CASE result.soh >= 90 * Pct -> "Excellent"
                   [] result.soh >= 80 * Pct /\ result.soh < 90 * Pct -> "Good"
                   [] result.soh >= 70 * Pct /\ result.soh < 80 * Pct -> "Fair"
                   [] result.soh >= 60 * Pct /\ result.soh < 70 * Pct -> "Poor"
                   [] result.soh < 60 * Pct -> "Critical")
        /\ result.status.description
              = (IF Has(payload, "currentCapacity")
                      /\ payload.currentCapacity # 0
                 THEN "measured" ELSE "estimated")

\* the documented scenario's health, 84, is Good (measured)
C18_Witness ==
    /\ fn = "determineBatteryStatus"
    /\ payload = Scenario
    /\ result.soh = 84 * Pct
    /\ result.status.status = "Good"
    /\ result.status.description = "measured"

\* C19: the measured currentCapacity reaches the trend only through the
\* calibration factor: every point's healthPct, the terminal one included, is
\* the modelHealthPct of the model without measurement at the point's cycle
\* and proportionally scaled calendar age, and a profile that differs only in
\* currentCapacity and has the same factor has the same trend.
C19_MeasurementOnlyCalibrates ==
    fn = "buildTrend" =>
        LET totalCycles == Max(Get(payload, "chargeCycles", 0), 0)
            factor == calculateCalibrationFactor(payload).factor
            nominal == Get(payload, "nominalCapacity", 100 * Ah)
            scale == IF nominal > 0 THEN nominal ELSE 100 * Ah
            others == {Without(payload, "currentCapacity")}
                        \cup {With(payload, "currentCapacity", c) :
                                 c \in {0, (42 * scale) \div 100,
                                        (120 * scale) \div 100}}
        IN  /\ \A k \in 1..Len(result) :
                  result[k].healthPct
                    = ToFixed2(computeDegradation(
                                   LoopPayload(payload, result[k].cycle,
                                               totalCycles),
                                   factor).modelHealthPct)
            /\ \A other \in others :
                  (Has(other, "nominalCapacity")
                     /\ FactorEq(calculateCalibrationFactor(other).factor,
                                 factor)) =>
                      buildTrend(other) = result

\* a measurement above the nominal capacity (health 100, factor 0.1): the
\* appended terminal point is the model's 96.92, not the measured health
C19_Witness ==
    /\ fn = "buildTrend"
    /\ ValidNominal
    /\ Has(payload, "currentCapacity")
    /\ payload.currentCapacity > payload.nominalCapacity
    /\ Get(payload, "chargeCycles", 0) = 550
    /\ Len(result) = 22
    /\ result[22].cycle = 550
    /\ result[22].healthPct < 100 * 100
    /\ result[22].healthPct > 90 * 100

\* C20: for every valid profile healthPct is non-increasing along the trend,
\* the step from the last sampled point to the appended terminal point
\* included.
C20_HealthNonIncreasing ==
    (fn = "buildTrend" /\ ValidNominal) =>
        \A k \in 1..(Len(result) - 1) :
            result[k + 1].healthPct <= result[k].healthPct

\* the documented scenario: health falls from 100 at cycle 0 through the last
\* sampled point (540) to the appended terminal point (550)
C20_Witness ==
    /\ fn = "buildTrend"
    /\ payload = Scenario
    /\ Len(result) = 22
    /\ result[1].healthPct = 100 * 100
    /\ result[21].healthPct < result[2].healthPct
    /\ result[22].healthPct < result[21].healthPct

\* C21: buildTrend terminates with at least 1 and at most 22 points, whatever
\* the magnitude of chargeCycles: at most 21 sampled points, at least 25
\* cycles apart, plus at most one appended terminal point; a negative
\* chargeCycles gives the trend of 0 cycles.
C21_TrendLength ==
    fn = "buildTrend" =>
        LET n == Len(result)
            totalCycles == Max(Get(payload, "chargeCycles", 0), 0)
            sampled == {k \in 1..n :
                          k < n \/ result[k].cycle % Max(25, totalCycles \div 20)
                                     = 0}
        IN  /\ n >= 1 /\ n <= 22
            /\ Cardinality(sampled) <= 21
            /\ \A k \in sampled : k > 1 =>
                  result[k].cycle - result[k - 1].cycle >= 25
            /\ Get(payload, "chargeCycles", 0) < 0 =>
                  n = 1 /\ result[1].cycle = 0

\* a large cycle count (one below LargeCycles): 21 sampled points and the
\* appended terminal point
C21_Witness ==
    /\ fn = "buildTrend"
    /\ Get(payload, "chargeCycles", 0) = LargeCycles - 1
    /\ Len(result) = 22
    /\ result[21].cycle = 20 * ((LargeCycles - 1) \div 20)
    /\ result[22].cycle = LargeCycles - 1

\* the parts of C22 other than the upper bound of the capacity: an integer
\* cycle >= 0, healthPct in [0, 100], capacity >= 0 and capacity =
\* (healthPct / 100) * nominalCapacity up to the two roundings (half a
\* hundredth of the capacity and half a hundredth of a percent of the health)
C22_PointShape ==
    \A k \in 1..Len(result) :
        LET point == result[k]
            exact == point.healthPct * payload.nominalCapacity
            shown == point.capacity * (100 * Ah)
        IN  /\ point.cycle \in Nat
            /\ point.healthPct >= 0 /\ point.healthPct <= 100 * 100
            /\ point.capacity >= 0
            /\ 2 * (shown - exact) <= 100 * Ah + payload.nominalCapacity
            /\ 2 * (exact - shown) <= 100 * Ah + payload.nominalCapacity

C23_DefaultsOnlyForMissing ==
    (fn = "getHealthSummary" /\ Has(payload, "chargeCycles")) =>
        LET estimate == Max(12, payload.chargeCycles \div 20)
            intended ==
                With(With(With(payload, "calendarAgeMonths",
                               Get(payload, "calendarAgeMonths", estimate)),
                          "avgTemperature", Get(payload, "avgTemperature", 25)),
                     "dodPct", Get(payload, "dodPct", 80))
        IN  /\ EnhancedInput(payload) = intended
            /\ result.healthPercentage
                  = computeDegradation(intended, One).healthPct
            /\ result.estimatedMonthsRemaining
                  = computeDegradation(intended, One).estimatedRUIMonths
            /\ result.assumptions.estimatedCalendarAge # <<>>
                  <=> ~Has(payload, "calendarAgeMonths")
            /\ result.assumptions.defaultTemperature # <<>>
                  <=> ~Has(payload, "avgTemperature")
            /\ result.assumptions.defaultDoD # <<>>
                  <=> ~Has(payload, "dodPct")

====
